---- MODULE Spec2Model ----
(***************************************************************************)
(* The Controller component of the Mandelbrot NFT front end                *)
(* (src/src/components/controller.rs): the navigation path, the children   *)
(* and bids of the current territory, the frames handed to the renderer,   *)
(* and the asynchronous tasks that refresh them from the ledger contract.  *)
(*                                                                         *)
(* One action is one run of an event handler or of a task segment between  *)
(* two awaits.  wasm is single threaded, so a segment is atomic; a task     *)
(* spawned by spawn_local runs to its first await right after the handler  *)
(* that spawned it, and redraw.emit(()) re-renders (view) before the next  *)
(* event.                                                                  *)
(***************************************************************************)
EXTENDS Integers, Sequences, FiniteSets, Bags, TLC

\* ------------------------------------------------------------------ bounds
MaxTasks == 2      \* tasks in flight at once
MaxFailures == 1   \* remote calls for known ids that fail in one run
MaxPath == 3       \* length of nav_history
MaxGestures == 4   \* clicks and account changes in one run

\* --------------------------------------------------------------- constants
ROOT == 1          \* view_nft(1), and the default of the token_id prop

NoAddress == "none"
Accounts == {"A"}

\* ------------------------------------------------- the ledger (environment)
KnownTokens == {1, 2, 3}
RequestedTokens == {2, 9}        \* the token_id prop; 9 does not exist

ParentOf(t) == IF t \in {2, 3} THEN 1 ELSE 0
OwnerOf(t) == IF t = 2 THEN "A" ELSE "B"

\* A Metadata value as the contract decodes it: owned is not part of the
\* ledger's answer and starts false.
Metadata(t) ==
    [token_id |-> t, parent_id |-> ParentOf(t), owner |-> OwnerOf(t), owned |-> FALSE]

BidIds == {11, 12}
BidParent(b) == 1
BidRecipient(b) == IF b = 11 THEN "A" ELSE "B"
BidAmount(b) == IF b = 11 THEN 5 ELSE 3
InitialBids == {11, 12}

\* A Bid value as the contract decodes it: selected and owned start false.
Bid(b) ==
    [bid_id |-> b, recipient |-> BidRecipient(b), amount |-> BidAmount(b),
     selected |-> FALSE, owned |-> FALSE]

RECURSIVE AncestryFrom(_)
AncestryFrom(t) ==
    IF t \notin KnownTokens THEN <<>>
    ELSE <<Metadata(t)>> \o AncestryFrom(ParentOf(t))

\* getAncestryMetadata: the token first and the root last ("node_first"),
\* which is the order view_nft reverses, or the root first.
AncestryOrders == {"node_first", "root_first"}

get_ancestry_metadata(t, order) ==
    IF order = "node_first" THEN AncestryFrom(t)
    ELSE [i \in 1..Len(AncestryFrom(t)) |->
             AncestryFrom(t)[Len(AncestryFrom(t)) + 1 - i]]

\* getChildrenMetadata, as a map keyed by token_id (line 76).
get_children_metadata(p) ==
    [t \in {c \in KnownTokens : ParentOf(c) = p} |-> Metadata(t)]

\* getBids, as a map keyed by bid_id (line 81).
get_bids(p, pending) ==
    [b \in {x \in pending : BidParent(x) = p} |-> Bid(b)]

\* ------------------------------------------------------------------ state
VARIABLES
    address,        \* Controller.address
    nav_history,    \* Controller.nav_history
    children,       \* Controller.children
    bids,           \* Controller.bids
    frames,         \* mandelbrot.frames
    viewed_token,   \* the token_id the last view() rendered (Burn button)
    tasks,          \* bag of the spawned tasks that await a response
    held,           \* mutexes whose guard a suspended task still holds
    crashed,        \* a handler locked a mutex that is held
    remote_bids,    \* the ledger's pending bids
    block,          \* the ledger's height: transactions that changed it
    errors,         \* bag of the errors handed to handle_error
    failed,         \* bag of the errors the ledger answered with
    ancestry_sent,  \* number of get_ancestry_metadata calls sent
    last_obtain,    \* parent_id of the latest obtain_tokens issued
    gestures,       \* number of user events handled so far
    approve_label,  \* text of the label behind approve_amount_node_ref
    remote_order,   \* the order in which the ledger answers an ancestry call
    selection_reset, \* history: a bids answer replaced a set with a selected bid
    last_click      \* history: the frame on_frame_selected handled in the last step

vars == <<address, nav_history, children, bids, frames, viewed_token, tasks, held,
          crashed, remote_bids, block, errors, failed, ancestry_sent, last_obtain,
          gestures, approve_label, remote_order, selection_reset, last_click>>

\* ---------------------------------------------------------------- helpers
Last(s) == s[Len(s)]
Reverse(s) == [i \in 1..Len(s) |-> s[Len(s) + 1 - i]]
Min(S) == CHOOSE x \in S : \A y \in S : x <= y

\* The values of a HashMap, in one fixed iteration order (ascending key).
RECURSIVE Values(_)
Values(m) ==
    IF DOMAIN m = {} THEN <<>>
    ELSE LET k == Min(DOMAIN m)
         IN <<m[k]>> \o Values([x \in DOMAIN m \ {k} |-> m[x]])

EmptyMap == [x \in {} |-> 0]

Task(kind, id, ids) == [kind |-> kind, id |-> id, ids |-> ids]
One(t) == SetToBag({t})
InFlight == BagCardinality(tasks)
NotFound(t) == t.kind = "ancestry" /\ t.id \notin KnownTokens
\* The error of a failed call: the call and why the ledger refused it.
Failure(t) ==
    [call |-> t.kind, reason |-> IF NotFound(t) THEN "not_found" ELSE "transient"]
RECURSIVE Copies(_, _)
Copies(S, bag) ==
    IF S = {} THEN 0
    ELSE LET e == CHOOSE x \in S : TRUE
         IN CopiesIn(e, bag) + Copies(S \ {e}, bag)
TransientFailures ==
    Copies({e \in BagToSet(failed) : e.reason = "transient"}, failed)
MayFail(t) == NotFound(t) \/ TransientFailures < MaxFailures
MaySucceed(t) == ~NotFound(t)

\* The fields of the component a handler works on, threaded through the
\* calls it makes; crashed is set by the first lock() of a held mutex and
\* nothing after it runs.
Local ==
    [address |-> address, nav_history |-> nav_history, children |-> children,
     bids |-> bids, frames |-> frames, viewed_token |-> viewed_token,
     crashed |-> crashed, approve_label |-> approve_label]

Commit(s) ==
    /\ address' = s.address
    /\ nav_history' = s.nav_history
    /\ children' = s.children
    /\ bids' = s.bids
    /\ frames' = s.frames
    /\ viewed_token' = s.viewed_token
    /\ crashed' = s.crashed
    /\ approve_label' = s.approve_label

\* Mutex::lock().unwrap() of mutex m while a suspended task holds its guard:
\* on wasm32 the single-threaded Mutex panics ("cannot recursively acquire
\* mutex"), with threads it blocks the only thread for ever.
Lock(s, m) == IF m \in held THEN [s EXCEPT !.crashed = TRUE] ELSE s

\* ------------------------------------------------------------ to_frame
TerritoryColors == {"Red", "Pink", "Blue", "LightBlue"}
PendingBidColors == {"Yellow", "Lemon"}
SelectedBidColors == {"Green"}

Frame(id, color) == [id |-> id, color |-> color]
NoFrame == Frame(0, "None")

token_to_frame(token, color) ==
    Frame(token.token_id,
          IF ~token.owned THEN color
          ELSE IF color = "Red" THEN "Pink" ELSE "LightBlue")

bid_to_frame(bid) ==
    Frame(bid.bid_id,
          IF bid.selected THEN "Green"
          ELSE IF bid.owned THEN "Lemon" ELSE "Yellow")

\* ------------------------------------------------------- check_ownership
\* A tagger that flips the flag of a token of the address instead of setting it.
tag_token_flips(token, addr) ==
    [token EXCEPT !.owned = IF token.owner = addr THEN ~token.owned ELSE FALSE]

tag_token(token, addr) == [token EXCEPT !.owned = (token.owner = addr)]
tag_bid(bid, addr) == [bid EXCEPT !.owned = (bid.recipient = addr)]

check_ownership(s) ==
    IF s.crashed \/ s.address = NoAddress THEN s
    ELSE LET s1 == [s EXCEPT
                     !.children = [k \in DOMAIN s.children |->
                                      tag_token(s.children[k], s.address)],
                     !.bids = [k \in DOMAIN s.bids |-> tag_bid(s.bids[k], s.address)]]
             s2 == Lock(s1, "nav_history")
         IN IF s2.crashed THEN s2
            ELSE [s2 EXCEPT !.nav_history =
                     [i \in 1..Len(s.nav_history) |->
                         tag_token(s.nav_history[i], s.address)]]

\* --------------------------------------------------------- update_frames
MapSeq(seq, Op(_)) == [i \in 1..Len(seq) |-> Op(seq[i])]

RedFrame(token) == token_to_frame(token, "Red")
BlueFrame(token) == token_to_frame(token, "Blue")

update_frames(s) ==
    IF s.crashed THEN s
    ELSE LET part == MapSeq(Values(s.children), RedFrame)
                       \o MapSeq(Values(s.bids), bid_to_frame)
             s1 == Lock([s EXCEPT !.frames = part], "nav_history")
         IN IF s1.crashed THEN s1
            ELSE [s1 EXCEPT !.frames =
                     part \o MapSeq(Reverse(s.nav_history), BlueFrame)]

\* ------------------------------------------------------------------ view
\* The part of view() that changes state: the address prop is stored, the
\* flags and the frames are rebuilt, and the token of the last path element
\* is captured by the Burn button.
rendered_token(s) ==
    IF s.crashed THEN s
    ELSE [s EXCEPT !.viewed_token =
             IF s.nav_history = <<>> THEN 0 ELSE Last(s.nav_history).token_id]

\* Lines 300-303 and 356: the sum of the amounts of the selected bids.
RECURSIVE total_approve_amount(_)
total_approve_amount(bd) ==
    IF DOMAIN bd = {} THEN 0
    ELSE LET k == Min(DOMAIN bd)
         IN (IF bd[k].selected THEN bd[k].amount ELSE 0)
               + total_approve_amount([x \in DOMAIN bd \ {k} |-> bd[x]])

\* The label exists only in the bids block (lines 391-421), where it is
\* rendered with the total (line 417).
NoLabel == -1

rendered_label(s) ==
    IF s.crashed THEN s
    ELSE [s EXCEPT !.approve_label =
             IF s.address # NoAddress /\ DOMAIN s.bids # {}
             THEN total_approve_amount(s.bids) ELSE NoLabel]

view(s, addr) ==
    CHOOSE s4 \in {rendered_label(s3) :
                      s3 \in {rendered_token(s2) :
                                s2 \in {update_frames(s1) :
                                          s1 \in {check_ownership([s EXCEPT !.address = addr])}}}} : TRUE

\* redraw.emit(()): the component re-renders with the props it has.
redraw_emit(s) == view(s, s.address)

\* ------------------------------------------------------ the error sink
\* ERC1155Contract is built with props.handle_error (line 131): a call that
\* fails is handed to it by the contract wrapper before the Err is returned.
handle_error(sink, error) == sink (+) One(error)

\* A controller that also reports the Err it is handed.
on_err_reports(sink, error) == sink (+) One(error)

\* What the controller itself does with the sink when a call returns Err:
\* nothing; the Err is dropped (`if let Ok`, lines 55, 73, 78) or the result
\* is not looked at (lines 217, 261, 323, 336).
on_err(sink, error) == sink

\* What a finished call leaves in the sink and in the ledger's own record of
\* failures.
Reported(t, ok) ==
    /\ errors' = IF ok THEN errors
                 ELSE on_err(handle_error(errors, Failure(t)), Failure(t))
    /\ failed' = IF ok THEN failed ELSE failed (+) One(Failure(t))

\* ------------------------------------------------------------------ Init
\* create() (lines 121-195): nothing is loaded, no address is known, and
\* view_nft(token_id) has spawned the ancestry task and obtain_tokens.
Created ==
    \E token_id \in RequestedTokens :
        /\ address = NoAddress
        /\ nav_history = <<>>
        /\ children = EmptyMap
        /\ bids = EmptyMap
        /\ frames = <<>>
        /\ viewed_token = 0
        /\ tasks = One(Task("ancestry", token_id, {})) (+) One(Task("children", token_id, {}))
        /\ held = {}
        /\ crashed = FALSE
        /\ remote_bids = InitialBids
        /\ block = 0
        /\ errors = EmptyBag
        /\ failed = EmptyBag
        /\ ancestry_sent = 1
        /\ last_obtain = token_id
        /\ gestures = 0
        /\ approve_label = NoLabel
        /\ selection_reset = FALSE
        /\ last_click = NoFrame

\* The ledger answers an ancestry call with the token first and the root last.
Init == Created /\ remote_order = "node_first"

\* The ledger answers in one of the two orders, the same for the whole run.
InitAnyOrder == Created /\ remote_order \in AncestryOrders

\* A user event is handled: one more of the run's budget is used.
Gesture ==
    /\ gestures < MaxGestures /\ gestures' = gestures + 1
    /\ UNCHANGED <<remote_order, selection_reset>>

\* ------------------------------------------------------ on_frame_selected
\* Lines 149-161: push the child with the frame's id, then cut the path after
\* the last element that has this id.
descend(nav, ch, id) ==
    LET pushed == IF id \in DOMAIN ch THEN Append(nav, ch[id]) ELSE nav
        hits == {i \in 1..Len(pushed) : pushed[i].token_id = id}
    IN IF hits = {} THEN pushed
       ELSE SubSeq(pushed, 1, CHOOSE i \in hits : \A j \in hits : j <= i)

\* Lines 163-165: the label, when it exists, is set to "0".
reset_label(label) == IF label = NoLabel THEN NoLabel ELSE 0

TerritorySelected(frame) ==
    /\ frame.color \in TerritoryColors
    /\ LET s1 == Lock(Local, "nav_history")
       IN IF s1.crashed
          THEN /\ Commit(s1)
               /\ UNCHANGED <<tasks, last_obtain>>
          ELSE /\ InFlight < MaxTasks
               /\ Len(descend(nav_history, children, frame.id)) <= MaxPath
               /\ Commit([s1 EXCEPT !.nav_history =
                             descend(nav_history, children, frame.id),
                                    !.approve_label = reset_label(approve_label)])
               \* obtain_tokens(frame.id)
               /\ tasks' = tasks (+) One(Task("children", frame.id, {}))
               /\ last_obtain' = frame.id
    /\ UNCHANGED <<held, remote_bids, block, errors, failed, ancestry_sent>>

set_selected(bd, id, state) ==
    IF id \in DOMAIN bd THEN [bd EXCEPT ![id].selected = state] ELSE bd

BidFrameSelected(frame) ==
    /\ frame.color \in PendingBidColors \cup SelectedBidColors
    /\ \E s1 \in {[Local EXCEPT !.bids =
                      set_selected(bids, frame.id, frame.color \in PendingBidColors)]} :
       \E s2 \in {update_frames(s1)} :
       \E s3 \in {redraw_emit(s2)} : Commit(s3)
    /\ UNCHANGED <<tasks, held, remote_bids, block, errors, failed, ancestry_sent, last_obtain>>

on_frame_selected ==
    /\ Gesture
    /\ ~crashed
    /\ \E i \in 1..Len(frames) :
          /\ \/ TerritorySelected(frames[i])
             \/ BidFrameSelected(frames[i])
          /\ last_click' = frames[i]

\* ------------------------------------------------- the account prop changes
\* The parent re-renders the component with another address (lines 198-208).
AccountChanged ==
    /\ Gesture
    /\ last_click' = NoFrame
    /\ ~crashed
    /\ \E addr \in (Accounts \cup {NoAddress}) \ {address} :
          /\ \E s1 \in {view(Local, addr)} : Commit(s1)
    /\ UNCHANGED <<tasks, held, remote_bids, block, errors, failed, ancestry_sent, last_obtain>>

\* ------------------------------------------------------------ the buttons
\* Rendered only when the address is some (lines 366, 391); the bid rows and
\* Approve only when there are bids (line 395).
ButtonsShown == address # NoAddress
BidRowsShown == address # NoAddress /\ DOMAIN bids # {}

on_burn_clicked ==
    /\ Gesture
    /\ last_click' = NoFrame
    /\ ~crashed /\ ButtonsShown /\ InFlight < MaxTasks
    /\ tasks' = tasks (+) One(Task("burn", viewed_token, {}))
    /\ UNCHANGED <<address, nav_history, children, bids, frames, viewed_token, held,
                   crashed, remote_bids, block, errors, failed, ancestry_sent, last_obtain,
                   approve_label>>

\* The mutexes whose guards the bid task keeps while it awaits bid(): the
\* guard of the `if let` scrutinee (line 249) and those of the arguments
\* (lines 259-260) live to the end of the statement.
BidGuards == {"nav_history", "bid_amount", "bids_minimum_price"}

\* A Bid button that bids on the token it was rendered with, as Burn does.
bid_token_rendered(nav, rendered) == rendered

\* Lines 249-252: the token_id of the last element of nav_history when the
\* task runs.
bid_token(nav, rendered) == Last(nav).token_id

on_bid_clicked ==
    /\ Gesture
    /\ last_click' = NoFrame
    /\ ~crashed /\ ButtonsShown /\ InFlight < MaxTasks
    /\ LET s1 == Lock(Local, "nav_history")
       IN /\ Commit(s1)
          /\ IF s1.crashed \/ nav_history = <<>>
             THEN UNCHANGED <<tasks, held>>
             ELSE /\ tasks' = tasks (+) One(Task("bid", bid_token(nav_history, viewed_token), {}))
                  /\ held' = BidGuards
    /\ UNCHANGED <<remote_bids, block, errors, failed, ancestry_sent, last_obtain>>

on_bid_toggled ==
    /\ Gesture
    /\ last_click' = NoFrame
    /\ ~crashed /\ BidRowsShown
    /\ \E bid_id \in DOMAIN bids, state \in BOOLEAN :
          /\ \E s1 \in {[Local EXCEPT
                            !.bids = set_selected(bids, bid_id, state),
                            !.approve_label =
                                IF bid_id \in DOMAIN bids
                                THEN total_approve_amount(set_selected(bids, bid_id, state))
                                ELSE approve_label]} :
             \E s2 \in {update_frames(s1)} : Commit(s2)
    /\ UNCHANGED <<tasks, held, remote_bids, block, errors, failed, ancestry_sent, last_obtain>>

selected_bids(bd) == {b \in DOMAIN bd : bd[b].selected}

on_approve_clicked ==
    /\ Gesture
    /\ last_click' = NoFrame
    /\ ~crashed /\ BidRowsShown /\ InFlight < MaxTasks
    /\ tasks' = tasks (+) One(Task("approve", 0, selected_bids(bids)))
    /\ UNCHANGED <<address, nav_history, children, bids, frames, viewed_token, held,
                   crashed, remote_bids, block, errors, failed, ancestry_sent, last_obtain,
                   approve_label>>

on_delete_clicked ==
    /\ Gesture
    /\ last_click' = NoFrame
    /\ ~crashed /\ BidRowsShown /\ InFlight < MaxTasks
    /\ \E bid_id \in DOMAIN bids :
          /\ tasks' = tasks (+) One(Task("delete", bid_id, {}))
    /\ UNCHANGED <<address, nav_history, children, bids, frames, viewed_token, held,
                   crashed, remote_bids, block, errors, failed, ancestry_sent, last_obtain,
                   approve_label>>

\* ------------------------------------------------------------- view_nft
\* Lines 55-61: the path is replaced by the reversed answer.
ancestry_ok(s, metadata) ==
    LET s1 == Lock(s, "nav_history")
    IN IF s1.crashed THEN s1 ELSE [s1 EXCEPT !.nav_history = Reverse(metadata)]

\* The answer to get_ancestry_metadata arrives.
AncestryDone ==
    /\ UNCHANGED <<gestures, remote_order, selection_reset>>
    /\ last_click' = NoFrame
    /\ ~crashed
    /\ \E t \in BagToSet(tasks) :
          /\ t.kind = "ancestry"
          /\ \/ /\ MaySucceed(t)
                /\ \E s1 \in {ancestry_ok(Local, get_ancestry_metadata(t.id, remote_order))} : Commit(s1)
                /\ tasks' = tasks (-) One(t)
                /\ Reported(t, TRUE)
                /\ UNCHANGED <<ancestry_sent, last_obtain>>
             \/ /\ MayFail(t)
                /\ InFlight < MaxTasks
                \* line 63: this.view_nft(1)
                /\ tasks' = ((tasks (-) One(t)) (+) One(Task("ancestry", ROOT, {})))
                               (+) One(Task("children", ROOT, {}))
                /\ ancestry_sent' = ancestry_sent + 1
                /\ last_obtain' = ROOT
                /\ Reported(t, FALSE)
                /\ UNCHANGED <<address, nav_history, children, bids, frames,
                               viewed_token, crashed, approve_label>>
    /\ UNCHANGED <<held, remote_bids, block>>

\* --------------------------------------------------------- obtain_tokens
\* A fetch that clears the map before it looks at the answer.
children_result_cleared(old, ok, metadata) == IF ok THEN metadata ELSE EmptyMap

\* A fetch whose answer is seen after clear() and before extend().
children_result_partial(old, ok, metadata) == IF ok THEN EmptyMap ELSE old

\* Lines 73-77.
children_result(old, ok, metadata) == IF ok THEN metadata ELSE old

\* A replacement that carries the selection over to the bids that stay.
bids_result_keeps(old, ok, answer) ==
    IF ok
    THEN [b \in DOMAIN answer |->
             IF b \in DOMAIN old
             THEN [answer[b] EXCEPT !.selected = old[b].selected] ELSE answer[b]]
    ELSE old

\* Lines 78-82.
bids_result(old, ok, answer) == IF ok THEN answer ELSE old

\* The answer to get_children_metadata arrives; the task goes on to get_bids.
ChildrenDone ==
    /\ UNCHANGED <<gestures, remote_order, selection_reset>>
    /\ last_click' = NoFrame
    /\ ~crashed
    /\ \E t \in BagToSet(tasks), ok \in BOOLEAN :
          /\ t.kind = "children"
          /\ IF ok THEN MaySucceed(t) ELSE MayFail(t)
          /\ children' = children_result(children, ok, get_children_metadata(t.id))
          /\ tasks' = (tasks (-) One(t)) (+) One([t EXCEPT !.kind = "bids"])
          /\ Reported(t, ok)
    /\ UNCHANGED <<address, nav_history, bids, frames, viewed_token, held, crashed,
                   remote_bids, block, ancestry_sent, last_obtain, approve_label>>

\* The answer to get_bids arrives; lines 78-85 run to the end of the task.
BidsDone ==
    /\ UNCHANGED <<gestures, remote_order>>
    /\ last_click' = NoFrame
    /\ ~crashed
    /\ \E t \in BagToSet(tasks), ok \in BOOLEAN :
          /\ t.kind = "bids"
          /\ IF ok THEN MaySucceed(t) ELSE MayFail(t)
          /\ \E s1 \in {[Local EXCEPT !.bids =
                            bids_result(bids, ok, get_bids(t.id, remote_bids))]} :
             \E s2 \in {check_ownership(s1)} :
             \E s3 \in {update_frames(s2)} :
             \E s4 \in {redraw_emit(s3)} : Commit(s4)
          /\ tasks' = tasks (-) One(t)
          /\ Reported(t, ok)
          /\ selection_reset' = (selection_reset \/ (ok /\ selected_bids(bids) # {}))
    /\ UNCHANGED <<held, remote_bids, block, ancestry_sent, last_obtain>>

\* ------------------------------------------------- the mutating calls
Mutating == {"bid", "approve", "delete", "burn"}

\* What a successful call changes in the ledger's pending bids.
ledger_after(t, pending) ==
    CASE t.kind = "bid" ->
           LET free == {b \in BidIds \ pending : BidParent(b) = t.id}
           IN IF free = {} THEN pending ELSE pending \cup {Min(free)}
      [] t.kind = "approve" -> pending \ t.ids
      [] t.kind = "delete" -> pending \ {t.id}
      [] OTHER -> pending

\* A handler that drops the selection when its call fails.
mutating_result_deselects(bd, ok) ==
    IF ok THEN bd ELSE [b \in DOMAIN bd |-> [bd[b] EXCEPT !.selected = FALSE]]

\* Nothing follows the await (lines 217, 261, 323, 336): the result is not
\* looked at and no field is written.
mutating_result(bd, ok) == bd

\* The answer to bid, batch_approve_bids, delete_bid or burn arrives: the task
\* ends (lines 217, 250-261, 323, 336) and the guards it held are dropped.
MutatingDone ==
    /\ UNCHANGED <<gestures, remote_order, selection_reset>>
    /\ last_click' = NoFrame
    /\ ~crashed
    /\ \E t \in BagToSet(tasks), ok \in BOOLEAN :
          /\ t.kind \in Mutating
          /\ IF ok THEN MaySucceed(t) ELSE MayFail(t)
          /\ remote_bids' = IF ok THEN ledger_after(t, remote_bids) ELSE remote_bids
          /\ block' = IF remote_bids' # remote_bids THEN block + 1 ELSE block
          /\ held' = IF t.kind = "bid" THEN {} ELSE held
          /\ bids' = mutating_result(bids, ok)
          /\ tasks' = tasks (-) One(t)
          /\ Reported(t, ok)
    /\ UNCHANGED <<address, nav_history, children, frames, viewed_token, crashed,
                   ancestry_sent, last_obtain, approve_label>>

\* ------------------------------------------------------------------ Next
Next ==
    \/ on_frame_selected
    \/ AccountChanged
    \/ on_burn_clicked
    \/ on_bid_clicked
    \/ on_bid_toggled
    \/ on_approve_clicked
    \/ on_delete_clicked
    \/ AncestryDone
    \/ ChildrenDone
    \/ BidsDone
    \/ MutatingDone

Spec == Init /\ [][Next]_vars

\* The same program against a ledger that may answer ancestry root first.
SpecAnyOrder == InitAnyOrder /\ [][Next]_vars

\* The ledger answers every call: a task that awaits a response gets it.
FairSpec ==
    /\ Spec
    /\ WF_vars(AncestryDone)
    /\ WF_vars(ChildrenDone)
    /\ WF_vars(BidsDone)
    /\ WF_vars(MutatingDone)

\* ----------------------------------------------------------------- claims
PathIds == [i \in 1..Len(nav_history) |-> nav_history[i].token_id]
Idle == tasks = EmptyBag /\ ~crashed
Answered(kind) == {t \in BagToSet(tasks) : t.kind = kind /\ CopiesIn(t, tasks') < CopiesIn(t, tasks)}
Selection(bd) == [b \in DOMAIN bd |-> bd[b].selected]
FailedNow(call) ==
    LET e == [call |-> call, reason |-> "transient"]
    IN CopiesIn(e, failed') > CopiesIn(e, failed)

\* C1: the answer to an obtain_tokens that is not the latest one issued is
\* discarded: it changes neither the children nor the bids.
C1_StaleResponseDiscarded ==
    [][/\ \A t \in Answered("children") :
             t.id # last_obtain => children' = children
       /\ \A t \in Answered("bids") :
             t.id # last_obtain => Selection(bids') = Selection(bids)]_vars

\* C2: in nav_history every element's parent_id is the token_id of the
\* element before it.
C2_ParentChain ==
    \A i \in 2..Len(nav_history) :
        nav_history[i].parent_id = nav_history[i - 1].token_id

\* C3: no token_id occurs twice in nav_history.
C3_NoDuplicate ==
    \A i, j \in 1..Len(nav_history) :
        nav_history[i].token_id = nav_history[j].token_id => i = j

\* C4: once the ancestry call for the requested token has failed, and unless
\* the retry against the root fails as well, nav_history becomes [root].
RetryPending ==
    ancestry_sent = 2 /\ \E t \in BagToSet(tasks) : t.kind = "ancestry"

C4_FallsBackToRoot ==
    RetryPending ~> (PathIds = <<ROOT>> \/ ancestry_sent > 2)

\* C5: one view_nft sends at most two ancestry calls.
C5_AtMostOneRetry == ancestry_sent <= 2

\* C6: no handler ever locks a mutex whose guard a suspended task holds.
C6_NeverBlocked == ~crashed

\* C7: when nothing is in flight, no fetch has failed and the ledger has not
\* changed, children and bids are those of the last element of nav_history.
C7_ShowsCurrent ==
    (Idle /\ nav_history # <<>> /\ TransientFailures = 0 /\ block = 0) =>
        LET cur == Last(nav_history).token_id
        IN /\ DOMAIN children = DOMAIN get_children_metadata(cur)
           /\ DOMAIN bids = DOMAIN get_bids(cur, InitialBids)

\* C8: a descend that changes the last element of nav_history empties
\* children and bids in the same step.
C8_ClearedOnDescend ==
    [][(/\ gestures' # gestures
        /\ nav_history # <<>> /\ nav_history' # <<>>
        /\ Last(nav_history').token_id # Last(nav_history).token_id)
       => (children' = EmptyMap /\ bids' = EmptyMap)]_vars

\* C9: a children fetch that fails leaves children as it was, and a bids
\* fetch that fails leaves bids as it was.
C9_FailedFetchKeeps ==
    [][/\ FailedNow("children") => children' = children
       /\ FailedNow("bids") => bids' = bids]_vars

C9_Witness ==
    /\ CopiesIn([call |-> "children", reason |-> "transient"], failed) > 0
    /\ DOMAIN children # {}
    /\ ~crashed

MutatingSucceeded ==
    /\ failed' = failed
    /\ \E t \in BagToSet(tasks) :
          t.kind \in Mutating /\ CopiesIn(t, tasks') < CopiesIn(t, tasks)

C11_RefreshAfterSuccess ==
    [][(MutatingSucceeded /\ nav_history # <<>>) =>
          \E t \in BagToSet(tasks') :
              /\ t.kind = "children"
              /\ t.id = Last(nav_history).token_id
              /\ CopiesIn(t, tasks') > CopiesIn(t, tasks)]_vars

\* C12: a bid, approve, delete or burn call that fails leaves nav_history,
\* children and bids, selected flags included, as they were.
C12_FailedActionKeeps ==
    [][(\E call \in Mutating : FailedNow(call)) =>
          /\ nav_history' = nav_history
          /\ children' = children
          /\ bids' = bids]_vars

C12_Witness ==
    /\ \E e \in BagToSet(failed) : e.call \in Mutating
    /\ selected_bids(bids) # {}
    /\ nav_history # <<>>
    /\ ~crashed

\* C13: when the address is none, no token and no bid is flagged owned.
C13_NoneOwnsNothing ==
    address = NoAddress =>
        /\ \A i \in 1..Len(nav_history) : ~nav_history[i].owned
        /\ \A k \in DOMAIN children : ~children[k].owned
        /\ \A b \in DOMAIN bids : ~bids[b].owned

\* C14: with an address, between events every token is flagged owned exactly
\* when the address is its owner, and every bid exactly when it is its
\* recipient.
C14_OwnershipCurrent ==
    (address # NoAddress /\ ~crashed) =>
        /\ \A i \in 1..Len(nav_history) :
               nav_history[i].owned = (nav_history[i].owner = address)
        /\ \A k \in DOMAIN children : children[k].owned = (children[k].owner = address)
        /\ \A b \in DOMAIN bids : bids[b].owned = (bids[b].recipient = address)

\* C15: the approve amount shown is the sum of the amounts of the bids in
\* bids that are selected.
C15_TotalMatchesSelection ==
    (approve_label # NoLabel /\ ~crashed) =>
        approve_label = total_approve_amount(bids)

\* C16: right after a bids answer has replaced bids, no bid is selected.
C16_ReplaceResetsSelection ==
    [][(failed' = failed /\ Answered("bids") # {}) =>
          \A b \in DOMAIN bids' : ~bids'[b].selected]_vars

C16_Witness ==
    /\ selection_reset
    /\ DOMAIN bids # {}
    /\ selected_bids(bids) = {}
    /\ ~crashed

\* C17: the state after an answer is applied holds the whole answer and
\* nothing else: never the cleared map, never a mix of old and new entries.
Untagged(bd) == [b \in DOMAIN bd |-> [bd[b] EXCEPT !.owned = FALSE]]

C17_ReplaceAtomic ==
    [][/\ \A t \in Answered("children") :
             failed' = failed => children' = get_children_metadata(t.id)
       /\ \A t \in Answered("bids") :
             failed' = failed => Untagged(bids') = get_bids(t.id, remote_bids)]_vars

C17_Witness ==
    /\ DOMAIN children # {}
    /\ DOMAIN bids # {} /\ DOMAIN bids # InitialBids
    /\ ~crashed

\* C18: between events the frames are the projection of the collections as
\* they are now.
Projection ==
    MapSeq(Values(children), RedFrame) \o MapSeq(Values(bids), bid_to_frame)
        \o MapSeq(Reverse(nav_history), BlueFrame)

C18_FramesCurrent == ~crashed => frames = Projection

\* C19: frames that are up to date hold one frame for each child, one for
\* each bid and one for each element of nav_history but the last; the last
\* element has no path frame.
PathColors == {"Blue", "LightBlue"}

C19_CurrentNodeExcluded ==
    (~crashed /\ nav_history # <<>> /\ frames = Projection) =>
        /\ Len(frames) = Cardinality(DOMAIN children) + Cardinality(DOMAIN bids)
                            + Len(nav_history) - 1
        /\ \A i \in 1..Len(frames) :
               ~(frames[i].color \in PathColors
                   /\ frames[i].id = Last(nav_history).token_id)

\* C20: after an ancestry answer is applied, nav_history starts at the root
\* and ends at the requested token, in whichever order the ledger answered.
C20_RootFirst ==
    [][\A t \in Answered("ancestry") :
          (failed' = failed /\ ~crashed') =>
              /\ nav_history' # <<>>
              /\ nav_history'[1].token_id = ROOT
              /\ Last(nav_history').token_id = t.id]_vars

\* C21: a nav_history that is not empty starts at the root.
C21_StartsAtRoot ==
    nav_history # <<>> => nav_history[1].token_id = ROOT

\* C22: a click on a Yellow or Lemon frame sets the bid's selected flag, a
\* click on a Green frame clears it, and both leave nav_history and children
\* as they were and spawn no task; a click on a territory frame performs the
\* descend, sets the label to 0 when there is one, leaves bids alone and
\* spawns exactly the refresh for the frame's id.
Issued(kind) ==
    {t \in BagToSet(tasks') : t.kind = kind /\ CopiesIn(t, tasks') > CopiesIn(t, tasks)}

BidClickEffect(frame, state) ==
    /\ frame.id \in DOMAIN bids => bids'[frame.id].selected = state
    /\ nav_history' = nav_history
    /\ children' = children
    /\ tasks' = tasks

C22_DispatchByClass ==
    [][(last_click' # NoFrame /\ ~crashed') =>
          /\ last_click'.color \in PendingBidColors => BidClickEffect(last_click', TRUE)
          /\ last_click'.color \in SelectedBidColors => BidClickEffect(last_click', FALSE)
          /\ last_click'.color \in TerritoryColors =>
                /\ nav_history' = descend(nav_history, children, last_click'.id)
                /\ approve_label' \in {NoLabel, 0}
                /\ bids' = bids /\ children' = children
                /\ tasks' = tasks (+) One(Task("children", last_click'.id, {}))]_vars

\* C23: check_ownership applied twice, with any address, gives what it
\* gives applied once.
C23_TagIdempotent ==
    \A addr \in Accounts \cup {NoAddress} :
        LET s == [Local EXCEPT !.address = addr]
        IN check_ownership(check_ownership(s)) = check_ownership(s)

C23_Witness ==
    /\ address # NoAddress
    /\ ~crashed /\ held = {}
    /\ check_ownership(Local) # Local

\* C24: every bid id handed to batch_approve_bids is a bid on the last
\* element of nav_history at the time of the call.
C24_ApprovesCurrentOnly ==
    [][\A t \in Issued("approve") :
          nav_history # <<>> =>
              \A b \in t.ids : BidParent(b) = Last(nav_history).token_id]_vars

\* C25: after a click on a territory frame has been handled, nav_history ends
\* at the frame's id.
C25_EndsAtClicked ==
    [][(last_click' # NoFrame /\ last_click'.color \in TerritoryColors /\ ~crashed') =>
          /\ nav_history' # <<>>
          /\ Last(nav_history').token_id = last_click'.id]_vars

\* C26: an ancestry answer that finds a nav_history the user has already
\* descended into does not move its last element.
C26_AnswerKeepsDescend ==
    [][\A t \in Answered("ancestry") :
          (failed' = failed /\ ~crashed' /\ nav_history # <<>>) =>
              /\ nav_history' # <<>>
              /\ Last(nav_history').token_id = Last(nav_history).token_id]_vars

\* C27: when the latest obtain_tokens(P) ends with nothing else in flight and
\* children holding the children of P, every bid in bids is a bid on P.
C27_SameTerritory ==
    [][\A t \in Answered("bids") :
          (/\ ~crashed'
           /\ t.id = last_obtain
           /\ tasks' = EmptyBag
           /\ DOMAIN children' = DOMAIN get_children_metadata(t.id)) =>
              \A b \in DOMAIN bids' : BidParent(b) = t.id]_vars

\* C28: a bid, approve, delete or burn call is sent only with an address, and
\* a bid only with a nav_history that is not empty, for the token_id of its
\* last element.
C28_CallsNeedAccount ==
    [][/\ \A kind \in Mutating : Issued(kind) # {} => address # NoAddress
       /\ \A t \in Issued("bid") :
             nav_history # <<>> /\ t.id = Last(nav_history).token_id]_vars

C28_Witness ==
    /\ ~crashed
    /\ nav_history # <<>>
    /\ \E t \in BagToSet(tasks) :
          t.kind = "bid" /\ t.id = Last(nav_history).token_id /\ t.id # viewed_token

====
